---- MODULE Spec2Model ----
(***************************************************************************)
(* Gaussian integers (package intgauss): ring operations, division with    *)
(* remainder, lattice rounding, the primality classifier, GaussianArray    *)
(* and the seeded random constructor.                                      *)
(*                                                                         *)
(* Python values are tagged records [kind, real, imag, den]:               *)
(*   kind = "GaussianInteger"  real + imag*j, den = 1                      *)
(*   kind = "complex"          the float pair real/den + (imag/den)*j kept *)
(*                             as an exact fraction with den > 0           *)
(*   kind = "int", "bool", "NoneType"   plain Python values (in real)      *)
(*   any other kind            the exception of that name, raised          *)
(* Floats are modelled exactly: within the bounds below every quotient is  *)
(* a fraction with a denominator of at most a few dozen, which the float   *)
(* division, floor, ceil and round of CPython decide as exact arithmetic   *)
(* does.                                                                   *)
(***************************************************************************)
EXTENDS Integers, Sequences, FiniteSets, TLC

VARIABLES
    a,          \* left operand (self) of a scalar operation
    b,          \* right operand (other) of a scalar operation
    exponent,   \* the exponent handed to __pow__
    z,          \* the complex argument of round_complex
    x,          \* a GaussianArray (self of the array operations)
    y,          \* the other operand of an element-wise array operation
    ind,        \* the index handed to __setitem__
    value,      \* the value handed to __setitem__
    heap,       \* the GaussianInteger objects alive, by identity: heap[id]
    arrs,       \* the containers of the arrays built, holding identities
    ref,        \* the identity __getitem__ returned last (0: none yet)
    src,        \* the <<array, slot>> that identity was read from
    rng,        \* the state of the process-wide generator of module random
    seed,       \* the seed argument of the last GaussianInteger.random
    op,         \* "init" before any call, then the name of the last call
    result      \* what the last call returned or raised

\* Bounds of the model.
MaxCoord == 2
MaxExp == 3
MaxPrimeCoord == 4
MaxNum == 6
MaxDen == 4
MaxLen == 2
MaxElem == 1
MaxArrays == 2
MaxObjs == 2
MaxSeed == 2
RngStates == 8

----------------------------------------------------------------------------
\* Values

Value(kind, real, imag, den) ==
    [kind |-> kind, real |-> real, imag |-> imag, den |-> den]

GaussianInteger(real, imag) == Value("GaussianInteger", real, imag, 1)

\* complex(num_r / d, num_i / d) with the sign carried by the numerators
Complex(num_r, num_i, d) ==
    IF d < 0 THEN Value("complex", -num_r, -num_i, -d)
    ELSE Value("complex", num_r, num_i, d)

PyInt(n) == Value("int", n, 0, 1)
Bool(v) == Value("bool", IF v THEN 1 ELSE 0, 0, 1)
None == Value("NoneType", 0, 0, 1)
Raise(exc) == Value(exc, 0, 0, 1)

IsGaussianInteger(v) == v.kind = "GaussianInteger"
IsError(v) ==
    v.kind \in {"ZeroDivisionError", "ValueError", "TypeError", "IndexError"}

GaussianIntegers(bound) ==
    {GaussianInteger(r, i) : r \in -bound..bound, i \in -bound..bound}

gauss_zero == GaussianInteger(0, 0)

gauss_units ==
    <<GaussianInteger(1, 0), GaussianInteger(-1, 0),
      GaussianInteger(0, 1), GaussianInteger(0, -1)>>

----------------------------------------------------------------------------
\* Ring operations of GaussianNumber / GaussianInteger

Eq(self, other) == self.real = other.real /\ self.imag = other.imag

Abs(self) == self.real * self.real + self.imag * self.imag

Conjugate(self) == GaussianInteger(self.real, -self.imag)

Neg(self) == GaussianInteger(-self.real, -self.imag)

Mul(self, other) ==
    GaussianInteger(self.real * other.real - self.imag * other.imag,
                    self.real * other.imag + other.real * self.imag)

Add(self, other) ==
    GaussianInteger(self.real + other.real, self.imag + other.imag)

\* numbers.Complex.__sub__: self + -other
Sub(self, other) == Add(self, Neg(other))

TrueDiv(self, other) ==
    IF (other.real = 0 \/ other.imag = 0)
       /\ (other.real # 0 /\ other.imag # 0)
    THEN IF other.imag = 0
         THEN Complex(self.real, self.imag, other.real)
         ELSE Complex(self.imag, -self.real, other.imag)
    ELSE IF other.real = 0 /\ other.imag = 0
    THEN Raise("ZeroDivisionError")
    ELSE LET numerator_complex == Mul(self, Conjugate(other))
             denominator_num == other.real * other.real
                                + other.imag * other.imag
         IN  Complex(numerator_complex.real, numerator_complex.imag,
                     denominator_num)

\* math.floor and math.ceil of the float num / den, den > 0
Floor(num, den) == num \div den
Ceil(num, den) == -((-num) \div den)

\* the builtin round() of the float num / den, den > 0: to the nearest
\* integer, a tie going to the even one
Round(num, den) ==
    LET q == num \div den
        r == num - q * den
    IN  IF 2 * r < den THEN q
        ELSE IF 2 * r > den THEN q + 1
        ELSE IF q % 2 = 0 THEN q ELSE q + 1

\* FloorDiv with the quotient truncated downwards instead of rounded
FloorDiv_Floored(self, other) ==
    LET float_complex == TrueDiv(self, other)
    IN  IF IsError(float_complex) THEN float_complex
        ELSE GaussianInteger(Floor(float_complex.real, float_complex.den),
                             Floor(float_complex.imag, float_complex.den))

FloorDiv(self, other) ==
    LET float_complex == TrueDiv(self, other)
    IN  IF IsError(float_complex) THEN float_complex
        ELSE GaussianInteger(Round(float_complex.real, float_complex.den),
                             Round(float_complex.imag, float_complex.den))

\* Mod with the quotient subtracted unmultiplied: self - (self // other)
Mod_Unscaled(self, other) ==
    LET q == FloorDiv(self, other)
    IN  IF IsError(q) THEN q ELSE Sub(self, q)

Mod(self, other) ==
    LET q == FloorDiv(self, other)
    IN  IF IsError(q) THEN q ELSE Sub(self, Mul(other, q))

----------------------------------------------------------------------------
\* Exponentiation

RECURSIVE PowLoop(_, _, _)
\* for _ in range(count): result *= self
PowLoop(acc, self, count) ==
    IF count <= 0 THEN acc ELSE PowLoop(Mul(acc, self), self, count - 1)

\* Pow without the decrement of the exponent before the zero test
Pow_NoDecrement(self, n) ==
    IF n = 0 THEN self
    ELSE IF n < 0 THEN Raise("ValueError")
    ELSE PowLoop(self, self, n)

Pow(self, n) ==
    LET decremented == n - 1
    IN  IF decremented = 0 THEN self
        ELSE IF decremented < 0 THEN Raise("ValueError")
        ELSE PowLoop(self, self, decremented)

----------------------------------------------------------------------------
\* Lattice rounding

\* The distance of the float pair z1 to the lattice point z2, as the integer
\* (z1.den * distance)^2: sqrt and the division by z1.den are increasing, so
\* two distances compare (and collide as dict keys) as these integers do.
complex_distance(z1, z2) ==
    (z1.real - z2.real * z1.den) * (z1.real - z2.real * z1.den)
    + (z1.imag - z2.imag * z1.den) * (z1.imag - z2.imag * z1.den)

complex_grid(c) ==
    <<GaussianInteger(Floor(c.real, c.den), Floor(c.imag, c.den)),
      GaussianInteger(Floor(c.real, c.den), Ceil(c.imag, c.den)),
      GaussianInteger(Ceil(c.real, c.den), Floor(c.imag, c.den)),
      GaussianInteger(Ceil(c.real, c.den), Ceil(c.imag, c.den))>>

\* compare_dict where a key met again keeps its first value
compare_dict_FirstWins(c) ==
    LET grid == complex_grid(c)
        keys == {complex_distance(c, grid[i]) : i \in 1..Len(grid)}
        first(k) == CHOOSE i \in 1..Len(grid) :
                      /\ complex_distance(c, grid[i]) = k
                      /\ \A j \in 1..(i - 1) :
                            complex_distance(c, grid[j]) # k
    IN  [k \in keys |-> grid[first(k)]]

\* {complex_distance(z, grid[i]): grid[i] for i in range(len(grid))}: a key
\* met again keeps its place and takes the later value
compare_dict(c) ==
    LET grid == complex_grid(c)
        keys == {complex_distance(c, grid[i]) : i \in 1..Len(grid)}
        last(k) == CHOOSE i \in 1..Len(grid) :
                      /\ complex_distance(c, grid[i]) = k
                      /\ \A j \in (i + 1)..Len(grid) :
                            complex_distance(c, grid[j]) # k
    IN  [k \in keys |-> grid[last(k)]]

Min(S) == CHOOSE m \in S : \A other \in S : m <= other

round_complex(c) ==
    LET dict == compare_dict(c)
        min_key == Min(DOMAIN dict)
    IN  dict[min_key]

----------------------------------------------------------------------------
\* Primality classifier

AbsInt(n) == IF n < 0 THEN -n ELSE n

\* math.ceil(math.sqrt(n)) for n >= 0
CeilSqrt(n) == CHOOSE k \in 0..n : k * k >= n /\ \A j \in 0..(k - 1) : j * j < n

\* for d in range(2, ceil(sqrt(n)) + 1): if n % d == 0: return False
is_real_prime(n) == \A d \in 2..CeilSqrt(n) : n % d # 0

\* criterion 1 without the congruence to 3 mod 4
gauss_criterion1_NoCongruence(c) ==
    LET criterion(x1, x2) == x1 = 0 /\ is_real_prime(AbsInt(x2))
    IN  criterion(c.real, c.imag) \/ criterion(c.imag, c.real)

gauss_criterion1(c) ==
    LET criterion(x1, x2) ==
            /\ x1 = 0
            /\ is_real_prime(AbsInt(x2))
            /\ (AbsInt(x2) - 3) % 4 = 0
    IN  criterion(c.real, c.imag) \/ criterion(c.imag, c.real)

gauss_criterion2(c) ==
    c.real # 0 /\ c.imag # 0 /\ is_real_prime(Abs(c))

is_prime(c) ==
    IF ~IsGaussianInteger(c) THEN Raise("TypeError")
    ELSE Bool(gauss_criterion1(c) \/ gauss_criterion2(c))

----------------------------------------------------------------------------
\* GaussianArray: __container__ is the list of elements, __size__ the length
\* taken at construction

Array(container, size) ==
    [kind |-> "GaussianArray", container |-> container, size |-> size]

IsGaussianArray(v) == v.kind = "GaussianArray"

\* GaussianArray(*values)
GaussianArray(values) ==
    IF \E i \in 1..Len(values) : ~IsGaussianInteger(values[i])
    THEN Raise("TypeError")
    ELSE Array(values, Len(values))

ArrayLen(self) == self.size

\* operator.__add__ ... operator.__mod__ applied to two elements
Apply(operation, z1, z2) ==
    CASE operation = "add" -> Add(z1, z2)
      [] operation = "sub" -> Sub(z1, z2)
      [] operation = "mul" -> Mul(z1, z2)
      [] operation = "truediv" -> TrueDiv(z1, z2)
      [] operation = "floordiv" -> FloorDiv(z1, z2)
      [] operation = "mod" -> Mod(z1, z2)

bin_operation(self, other, operation) ==
    IF ~IsGaussianArray(other) THEN Raise("TypeError")
    ELSE IF ArrayLen(self) # ArrayLen(other) THEN Raise("ValueError")
    ELSE LET n == IF Len(self.container) <= Len(other.container)
                  THEN Len(self.container) ELSE Len(other.container)
             res == [i \in 1..n |->
                        Apply(operation, self.container[i], other.container[i])]
             failed == {i \in 1..n : IsError(res[i])}
         IN  IF failed # {} THEN res[Min(failed)]
             ELSE GaussianArray(res)

\* the list slot (1-based) a Python index names in a list of length n, 0 when
\* the index is out of range
Slot(n, i) ==
    IF 0 <= i /\ i < n THEN i + 1
    ELSE IF -n <= i /\ i < 0 THEN n + i + 1
    ELSE 0

\* __setitem__ with the store made before the type of the value is checked
setitem_StoreFirst(self, i, v) ==
    LET slot == Slot(Len(self.container), i)
        stored == IF slot = 0 THEN self
                  ELSE [self EXCEPT !.container[slot] = v]
    IN  IF ~IsGaussianInteger(v)
        THEN [array |-> stored, raised |-> Raise("ValueError")]
        ELSE IF slot = 0
        THEN [array |-> self, raised |-> Raise("IndexError")]
        ELSE [array |-> stored, raised |-> None]

\* __setitem__: the array afterwards and what was raised (None: nothing)
setitem(self, i, v) ==
    IF ~IsGaussianInteger(v)
    THEN [array |-> self, raised |-> Raise("ValueError")]
    ELSE LET slot == Slot(Len(self.container), i)
         IN  IF slot = 0
             THEN [array |-> self, raised |-> Raise("IndexError")]
             ELSE [array |-> [self EXCEPT !.container[slot] = v],
                   raised |-> None]

----------------------------------------------------------------------------
\* Scalar calls: the arguments are drawn in the initial state, one call is
\* made on them

vars == <<a, b, exponent, z, x, y, ind, value, heap, arrs, ref, src, rng,
          seed, op, result>>

NoScalars ==
    /\ a = gauss_zero
    /\ b = gauss_zero
    /\ exponent = 1
    /\ z = Complex(0, 0, 1)

NoArrays ==
    /\ x = Array(<<>>, 0)
    /\ y = Array(<<>>, 0)
    /\ ind = 0
    /\ value = None

\* the objects the package creates when imported: gauss_zero, gauss_units
ModuleObjects ==
    <<[real |-> 0, imag |-> 0], [real |-> 1, imag |-> 0],
      [real |-> -1, imag |-> 0], [real |-> 0, imag |-> 1],
      [real |-> 0, imag |-> -1]>>

ZeroId == 1
UnitIds == 2..5

NoSeed == [given |-> FALSE, number |-> 0]

NoHeap ==
    /\ heap = ModuleObjects
    /\ arrs = <<>>
    /\ ref = 0
    /\ src = <<0, 0>>

NoRng == rng = 0 /\ seed = NoSeed

NoCall == op = "init" /\ result = None

Call(name, returned) ==
    /\ op = "init"
    /\ op' = name
    /\ result' = returned
    /\ UNCHANGED <<a, b, exponent, z, x, y, ind, value>>
    /\ UNCHANGED <<heap, arrs, ref, src, rng, seed>>

\* a (op) b
Init ==
    /\ a \in GaussianIntegers(MaxCoord)
    /\ b \in GaussianIntegers(MaxCoord)
    /\ exponent = 1
    /\ z = Complex(0, 0, 1)
    /\ NoArrays
    /\ NoHeap
    /\ NoRng
    /\ NoCall

AddOp == Call("add", Add(a, b))
SubOp == Call("sub", Sub(a, b))
MulOp == Call("mul", Mul(a, b))
TrueDivOp == Call("truediv", TrueDiv(a, b))
FloorDivOp == Call("floordiv", FloorDiv(a, b))
ModOp == Call("mod", Mod(a, b))

Next == AddOp \/ SubOp \/ MulOp \/ TrueDivOp \/ FloorDivOp \/ ModOp

Spec == Init /\ [][Next]_vars

\* a ** exponent
InitPow ==
    /\ a \in GaussianIntegers(MaxCoord)
    /\ exponent \in -MaxExp..MaxExp
    /\ b = gauss_zero
    /\ z = Complex(0, 0, 1)
    /\ NoArrays
    /\ NoHeap
    /\ NoRng
    /\ NoCall

PowOp == Call("pow", Pow(a, exponent))

SpecPow == InitPow /\ [][PowOp]_vars

\* round_complex(z)
ComplexInputs ==
    {Complex(p, q, d) : p \in -MaxNum..MaxNum, q \in -MaxNum..MaxNum,
                        d \in 1..MaxDen}

InitRound ==
    /\ z \in ComplexInputs
    /\ a = gauss_zero
    /\ b = gauss_zero
    /\ exponent = 1
    /\ NoArrays
    /\ NoHeap
    /\ NoRng
    /\ NoCall

RoundComplexOp == Call("round_complex", round_complex(z))

SpecRound == InitRound /\ [][RoundComplexOp]_vars

\* is_prime(a)
InitPrime ==
    /\ a \in GaussianIntegers(MaxPrimeCoord) \cup {PyInt(3)}
    /\ b = gauss_zero
    /\ exponent = 1
    /\ z = Complex(0, 0, 1)
    /\ NoArrays
    /\ NoHeap
    /\ NoRng
    /\ NoCall

IsPrimeOp == Call("is_prime", is_prime(a))

SpecPrime == InitPrime /\ [][IsPrimeOp]_vars

----------------------------------------------------------------------------
\* Array calls

Elements == {GaussianInteger(r, i) : r \in 0..MaxElem, i \in 0..MaxElem}

SeqsOf(S, n) == UNION {[1..k -> S] : k \in 0..n}

Arrays == {GaussianArray(values) : values \in SeqsOf(Elements, MaxLen)}

BinaryOperations == {"add", "sub", "mul", "truediv", "floordiv", "mod"}

\* x (op) y, element-wise
InitArrayOps ==
    /\ x \in Arrays
    /\ y \in Arrays
    /\ ind = 0
    /\ value = None
    /\ NoScalars
    /\ NoHeap
    /\ NoRng
    /\ NoCall

ArrayBinOp ==
    \E operation \in BinaryOperations :
        Call(operation, bin_operation(x, y, operation))

SpecArrayOps == InitArrayOps /\ [][ArrayBinOp]_vars

\* x[ind] = value, any number of times
InitSetItem ==
    /\ x \in Arrays
    /\ y = Array(<<>>, 0)
    /\ ind = 0
    /\ value = None
    /\ NoScalars
    /\ NoHeap
    /\ NoRng
    /\ NoCall

Indices == -(MaxLen + 1)..MaxLen

Assignable == Elements \cup {PyInt(3), Complex(1, 1, 2)}

SetItemOp ==
    \E i \in Indices, v \in Assignable :
        LET done == setitem(x, i, v)
        IN  /\ x' = done.array
            /\ result' = done.raised
            /\ op' = "setitem"
            /\ ind' = i
            /\ value' = v
            /\ UNCHANGED <<a, b, exponent, z, y>>
            /\ UNCHANGED <<heap, arrs, ref, src, rng, seed>>

SpecSetItem == InitSetItem /\ [][SetItemOp]_vars

----------------------------------------------------------------------------
\* Object identity: arrays hold references, __getitem__ hands one out, the
\* real and imag setters write through it

scalarVars == <<a, b, exponent, z, x, y, ind, value>>

Fresh(values) == [i \in 1..Len(values) |->
                     [real |-> values[i].real, imag |-> values[i].imag]]

\* GaussianArray.zeros(n): [gauss_zero for _ in range(n)], the one object
ZerosCall ==
    \E n \in 0..MaxLen :
        /\ Len(arrs) < MaxArrays
        /\ arrs' = Append(arrs, [i \in 1..n |-> ZeroId])
        /\ op' = "zeros"
        /\ result' = None
        /\ UNCHANGED <<heap, ref, src, rng, seed, scalarVars>>

\* GaussianArray(GaussianInteger(..), ...): every argument a new object
ConstructCall ==
    \E values \in SeqsOf(Elements, MaxLen) :
        /\ Len(values) > 0
        /\ Len(arrs) < MaxArrays
        /\ Len(heap) + Len(values) <= Len(ModuleObjects) + MaxObjs
        /\ heap' = heap \o Fresh(values)
        /\ arrs' = Append(arrs, [i \in 1..Len(values) |-> Len(heap) + i])
        /\ op' = "construct"
        /\ result' = None
        /\ UNCHANGED <<ref, src, rng, seed, scalarVars>>

\* element = array[i]
GetItemCall ==
    \E k \in 1..Len(arrs), i \in Indices :
        LET slot == Slot(Len(arrs[k]), i)
        IN  /\ op' = "getitem"
            /\ IF slot = 0
               THEN /\ result' = Raise("IndexError")
                    /\ UNCHANGED <<ref, src>>
               ELSE /\ ref' = arrs[k][slot]
                    /\ src' = <<k, slot>>
                    /\ result' = GaussianInteger(heap[arrs[k][slot]].real,
                                                 heap[arrs[k][slot]].imag)
            /\ UNCHANGED <<heap, arrs, rng, seed, scalarVars>>

\* element.real = v
SetRealCall ==
    \E v \in 0..MaxElem :
        /\ ref # 0
        /\ heap' = [heap EXCEPT ![ref].real = v]
        /\ op' = "real.setter"
        /\ result' = None
        /\ UNCHANGED <<arrs, ref, src, rng, seed, scalarVars>>

\* element.imag = v
SetImagCall ==
    \E v \in 0..MaxElem :
        /\ ref # 0
        /\ heap' = [heap EXCEPT ![ref].imag = v]
        /\ op' = "imag.setter"
        /\ result' = None
        /\ UNCHANGED <<arrs, ref, src, rng, seed, scalarVars>>

InitHeap == NoScalars /\ NoArrays /\ NoHeap /\ NoRng /\ NoCall

NextHeap ==
    ZerosCall \/ ConstructCall \/ GetItemCall \/ SetRealCall \/ SetImagCall

SpecHeap == InitHeap /\ [][NextHeap]_vars

----------------------------------------------------------------------------
\* The process-wide generator of module random, as a generator of RngStates
\* states: seeding with a number fixes the state, seeding with None takes it
\* from the operating system's entropy

AllRngStates == 0..(RngStates - 1)

SeedStates(s) == IF s.given THEN {s.number % RngStates} ELSE AllRngStates

Step(state) == (5 * state + 3) % RngStates

\* random.randint(lo, hi) drawn in state `state`, lo <= hi
RandInt(state, lo, hi) == lo + (Step(state) % (hi - lo + 1))

Seeds == {NoSeed} \cup {[given |-> TRUE, number |-> n] : n \in 0..MaxSeed}

\* the caller's own random.seed(n)
CallerSeed ==
    \E s \in Seeds :
        /\ rng' \in SeedStates(s)
        /\ op' = "seed"
        /\ result' = None
        /\ UNCHANGED <<seed, heap, arrs, ref, src, scalarVars>>

\* the caller's own random.randint(0, MaxElem)
CallerDraw ==
    /\ rng' = Step(rng)
    /\ op' = "randint"
    /\ result' = PyInt(RandInt(rng, 0, MaxElem))
    /\ UNCHANGED <<seed, heap, arrs, ref, src, scalarVars>>

\* GaussianInteger.random(lo, hi, seed)
RandomCall ==
    \E lo \in 0..MaxElem, hi \in 0..MaxElem, s \in Seeds :
      \E seeded \in SeedStates(s) :
        /\ op' = "random"
        /\ seed' = s
        /\ IF lo > hi
           THEN /\ result' = Raise("ValueError")
                /\ rng' = seeded
           ELSE /\ result' = GaussianInteger(RandInt(seeded, lo, hi),
                                             RandInt(Step(seeded), lo, hi))
                /\ rng' \in SeedStates(NoSeed)
        /\ UNCHANGED <<heap, arrs, ref, src, scalarVars>>

InitRng ==
    /\ NoScalars /\ NoArrays /\ NoHeap /\ NoCall
    /\ rng \in AllRngStates
    /\ seed = NoSeed

NextRng == CallerSeed \/ CallerDraw \/ RandomCall

SpecRng == InitRng /\ [][NextRng]_vars

----------------------------------------------------------------------------
\* C1: for all Gaussian integers a, b with b nonzero, a // b and a % b
\* return Gaussian integers with a == b*(a // b) + (a % b), in both the
\* real and the imaginary component.
C1_DivisionIdentity ==
    (op = "mod" /\ ~Eq(b, gauss_zero)) =>
        /\ IsGaussianInteger(result)
        /\ IsGaussianInteger(FloorDiv(a, b))
        /\ Eq(a, Add(Mul(b, FloorDiv(a, b)), result))

\* a % b was taken with a quotient that is not zero and a remainder that
\* is not zero
C1_Witness ==
    /\ op = "mod"
    /\ ~Eq(b, gauss_zero)
    /\ IsGaussianInteger(result)
    /\ ~Eq(FloorDiv(a, b), gauss_zero)
    /\ ~Eq(result, gauss_zero)

----------------------------------------------------------------------------
\* True primality of an integer, and the two criteria stated with it

IsTruePrime(n) == n >= 2 /\ \A d \in 2..(n - 1) : n % d # 0

AxisPrime(c) ==
    \/ c.real = 0 /\ c.imag # 0 /\ IsTruePrime(AbsInt(c.imag))
                  /\ AbsInt(c.imag) % 4 = 3
    \/ c.imag = 0 /\ c.real # 0 /\ IsTruePrime(AbsInt(c.real))
                  /\ AbsInt(c.real) % 4 = 3

NormPrime(c) == c.real # 0 /\ c.imag # 0 /\ IsTruePrime(Abs(c))

\* C2: for every Gaussian integer, is_prime is true iff criterion 1 (one
\* component zero, the other in absolute value a real prime congruent to 3
\* mod 4) or criterion 2 (both components nonzero, the norm a real prime)
\* holds, with true primality of the integer.
C2_IsPrimeIffCriteria ==
    (op = "is_prime" /\ IsGaussianInteger(a)) =>
        result = Bool(AxisPrime(a) \/ NormPrime(a))

ZeroAndUnits == {gauss_zero} \cup {gauss_units[i] : i \in 1..Len(gauss_units)}

\* C3: is_prime returns false for the zero element and for the four units,
\* by the two criteria themselves: the real-primality helper is called on 0
\* and 1 and admits them, and the congruence of criterion 1 and the nonzero
\* components of criterion 2 reject them.
C3_ZeroAndUnitsNotPrime ==
    (op = "is_prime" /\ a \in ZeroAndUnits) =>
        /\ result = Bool(FALSE)
        /\ ~gauss_criterion1(a)
        /\ ~gauss_criterion2(a)
        /\ is_real_prime(Abs(a))

\* is_prime was called on the unit -j
C3_Witness ==
    /\ op = "is_prime"
    /\ a = GaussianInteger(0, -1)
    /\ result = Bool(FALSE)

----------------------------------------------------------------------------
\* Lattice rounding

GridSet(c) == {complex_grid(c)[i] : i \in 1..4}

Nearest(c) ==
    {g \in GridSet(c) :
        \A h \in GridSet(c) : complex_distance(c, g) <= complex_distance(c, h)}

LexLeq(g, h) == g.real < h.real \/ (g.real = h.real /\ g.imag <= h.imag)

\* C4 as stated: round_complex returns a candidate at minimum distance, and
\* among equidistant candidates the lexicographically smallest (real, imag).
C4_TieLexSmallest ==
    op = "round_complex" =>
        /\ result \in Nearest(z)
        /\ \A g \in Nearest(z) : LexLeq(result, g)

\* C4 amended: round_complex returns a candidate at minimum distance, and
\* among equidistant candidates the one that comes last in the grid order
\* (floor,floor), (floor,ceil), (ceil,floor), (ceil,ceil), which is the
\* lexicographically largest (real, imag); 1.5+1.5j rounds to (2, 2).
C4_TieLexLargest ==
    op = "round_complex" =>
        /\ result \in Nearest(z)
        /\ \A g \in Nearest(z) : LexLeq(g, result)
        /\ (z = Complex(3, 3, 2) => result = GaussianInteger(2, 2))

\* 1.5+1.5j was rounded: four distinct candidates, all at the same distance
C4_Witness ==
    /\ op = "round_complex"
    /\ z = Complex(3, 3, 2)
    /\ Cardinality(Nearest(z)) = 4
    /\ result = GaussianInteger(2, 2)

----------------------------------------------------------------------------
\* Floor division against lattice rounding

\* num / den lies exactly halfway between two integers
Halfway(num, den) == num % den # 0 /\ (2 * num) % den = 0

\* C5 as stated: for b nonzero, a // b equals round_complex(a / b), also
\* when a component of the quotient is exactly halfway between two integers.
C5_FloorDivIsRoundComplex ==
    (op = "floordiv" /\ ~Eq(b, gauss_zero)) =>
        result = round_complex(TrueDiv(a, b))

\* C5 amended: for b nonzero, a // b agrees with round_complex(a / b) in
\* every component of the quotient that is not exactly halfway between two
\* integers; a halfway component goes to its even neighbour in a // b and to
\* its upper neighbour in round_complex.
C5_FloorDivRoundsHalfEven ==
    (op = "floordiv" /\ ~Eq(b, gauss_zero)) =>
        LET q == TrueDiv(a, b)
            r == round_complex(q)
        IN  /\ IsGaussianInteger(result)
            /\ ~Halfway(q.real, q.den) => result.real = r.real
            /\ ~Halfway(q.imag, q.den) => result.imag = r.imag
            /\ Halfway(q.real, q.den) =>
                   /\ result.real % 2 = 0
                   /\ AbsInt(2 * result.real * q.den - 2 * q.real) = q.den
                   /\ r.real = Ceil(q.real, q.den)
            /\ Halfway(q.imag, q.den) =>
                   /\ result.imag % 2 = 0
                   /\ AbsInt(2 * result.imag * q.den - 2 * q.imag) = q.den
                   /\ r.imag = Ceil(q.imag, q.den)

\* a // b was taken where the real part of a / b is halfway and the imaginary
\* part is not, and the two roundings part
C5_Witness ==
    /\ op = "floordiv"
    /\ ~Eq(b, gauss_zero)
    /\ Halfway(TrueDiv(a, b).real, TrueDiv(a, b).den)
    /\ ~Halfway(TrueDiv(a, b).imag, TrueDiv(a, b).den)
    /\ result # round_complex(TrueDiv(a, b))
    /\ result.imag = round_complex(TrueDiv(a, b)).imag

----------------------------------------------------------------------------
\* Exponentiation

RECURSIVE Product(_, _)
\* the product of n copies of c, n >= 1
Product(c, n) == IF n <= 1 THEN c ELSE Mul(c, Product(c, n - 1))

\* C10: a ** n is the product of n copies of a for every n >= 1 (a ** 1 is
\* a); n = 0 and every negative n raise an error and return no value.
C10_PowIsRepeatedMul ==
    op = "pow" =>
        IF exponent >= 1
        THEN IsGaussianInteger(result) /\ Eq(result, Product(a, exponent))
        ELSE result = Raise("ValueError")

\* a ** 3 was taken of a number with both components nonzero, and a ** 0 of
\* the same number fails
C10_Witness ==
    /\ op = "pow"
    /\ exponent = 3
    /\ a = GaussianInteger(1, 2)
    /\ result = GaussianInteger(-11, -2)
    /\ Pow(a, 0) = Raise("ValueError")

----------------------------------------------------------------------------
\* Element-wise array operators

Divides(operation) == operation \in {"truediv", "floordiv", "mod"}

\* C6: for each of add, sub, mul, true-divide, floor-divide and mod and any
\* two arrays x, y of the same length n (divisors nonzero where the operator
\* divides) the operation returns an array of length n whose i-th entry is
\* the Gaussian integer operation on x[i] and y[i]; arrays of different
\* lengths raise the length error.
C6_ElementWise ==
    (op \in BinaryOperations
     /\ (Divides(op) =>
            \A i \in 1..Len(y.container) : ~Eq(y.container[i], gauss_zero))) =>
        IF ArrayLen(x) = ArrayLen(y)
        THEN /\ IsGaussianArray(result)
             /\ ArrayLen(result) = ArrayLen(x)
             /\ Len(result.container) = ArrayLen(x)
             /\ \A i \in 1..ArrayLen(x) :
                    result.container[i] =
                        Apply(op, x.container[i], y.container[i])
        ELSE result = Raise("ValueError")

----------------------------------------------------------------------------
\* Index assignment

\* C7: across every index assignment, succeeding or failing, the length of
\* the array stays the one fixed at construction and every stored element is
\* a GaussianInteger; a successful assignment stores the value in the target
\* slot and changes no other slot, a failing one (a value that is no
\* GaussianInteger, an index out of range) changes no slot.
C7_SetItemFrame ==
    [][op' = "setitem" =>
        /\ ArrayLen(x') = ArrayLen(x)
        /\ Len(x'.container) = ArrayLen(x')
        /\ \A j \in 1..Len(x'.container) : IsGaussianInteger(x'.container[j])
        /\ IF result' = None
           THEN LET target == Slot(ArrayLen(x), ind')
                IN  /\ target \in 1..ArrayLen(x)
                    /\ x'.container[target] = value'
                    /\ \A j \in 1..ArrayLen(x) :
                          j # target => x'.container[j] = x.container[j]
           ELSE /\ IsError(result')
                /\ (~IsGaussianInteger(value')
                    \/ Slot(ArrayLen(x), ind') = 0)
                /\ x'.container = x.container]_vars

\* an assignment through a negative index succeeded on an array of two
\* elements and left the other slot with a different value
C7_Witness ==
    /\ op = "setitem"
    /\ result = None
    /\ ind = -1
    /\ ArrayLen(x) = 2
    /\ x.container[2] = value
    /\ x.container[1] # value

----------------------------------------------------------------------------
\* Sharing between instances

Seen(h, k, j) == h[arrs[k][j]]

\* C8: a real or imag setter called on an element read from one slot of an
\* array changes the value seen at no other slot of that array, at no slot
\* of another array, and in none of the module constants gauss_zero and
\* gauss_units.
C8_NoSharedState ==
    [][op' \in {"real.setter", "imag.setter"} =>
        /\ \A k \in 1..Len(arrs) : \A j \in 1..Len(arrs[k]) :
              <<k, j>> # src => Seen(heap', k, j) = Seen(heap, k, j)
        /\ heap'[ZeroId] = heap[ZeroId]
        /\ \A u \in UnitIds : heap'[u] = heap[u]]_vars

----------------------------------------------------------------------------
\* The generator state across GaussianInteger.random

\* C9: a call of GaussianInteger.random with a seed given leaves the state
\* of the process-wide generator as it was before the call.
C9_RandomRestoresState ==
    [][(op' = "random" /\ seed'.given) => rng' = rng]_vars

----------------------------------------------------------------------------
\* The remainder against the divisor

====
